---------------------------- MODULE Spec2Model ----------------------------
(***************************************************************************)
(* Embedding inference engine: the model registry (CandleModelLoader), the *)
(* embedding service (SentenceTransformerService) and the use cases        *)
(* (EmbeddingUseCase) that validate requests before delegating to them.    *)
(*                                                                         *)
(* Every request is a task of the async runtime.  A task is modelled by    *)
(* its position (pc), the call it runs (op), its arguments (texts, config),*)
(* its locals (used, embeddings) and, once it returned, its result; input  *)
(* is the text list a caller of encode_batch kept to compare the response  *)
(* with.  eng is one encoding of the inference engine stepped through on   *)
(* its own, from the tokens to the vectors.                                *)
(* The registry's slot is current_model, an Option<ModelComponents> behind *)
(* tokio's RwLock: a fair lock that serves its waiters first-in first-out. *)
(***************************************************************************)
EXTENDS Integers, Sequences, FiniteSets, TLC

VARIABLES current_model, readers, writer, waiters,
          pc, op, input, texts, config, used, embeddings, result, eng

vars == <<current_model, readers, writer, waiters,
          pc, op, input, texts, config, used, embeddings, result, eng>>

-----------------------------------------------------------------------------
(* Bounds of the model *)

\* concurrent tasks of the runtime
NumProcs == 2

\* the texts of one run of the inference engine stepped through on its own
MaxTexts == 2

Procs == 1..NumProcs

-----------------------------------------------------------------------------
(* Program constants *)

MAX_BATCH_SIZE == 100

default_model == "sentence-transformers/all-MiniLM-L6-v2"

\* bound of max_sequence_length checked by switch_model
MAX_SEQUENCE_LENGTH == 8192

-----------------------------------------------------------------------------
(* Option, Result *)

None == <<>>
Some(x) == <<x>>
Unwrap(o) == o[1]

Ok(v) == [ok |-> TRUE, value |-> v]

\* an error: the type behind it, its message, the numbers the message names
ErrArgs(kind, message, args) ==
    [ok |-> FALSE, kind |-> kind, message |-> message, args |-> args]

Err(kind, message) == ErrArgs(kind, message, <<>>)

\* anyhow!(message): an error of no declared type, only a message
anyhow(message) == Err("adhoc", message)

anyhowArgs(message, args) == ErrArgs("adhoc", message, args)

NoResult == Err("none", "")

IsErr(r, message) == ~r.ok /\ r.message = message

-----------------------------------------------------------------------------
(* Texts are sequences of characters *)

Texts == { <<>>, <<" ">>, <<"a">>, <<" ", "a">> }

IsWhitespace(c) == c = " "

RECURSIVE trim_start(_)
trim_start(s) ==
    IF s = <<>> THEN s
    ELSE IF IsWhitespace(Head(s)) THEN trim_start(Tail(s)) ELSE s

RECURSIVE trim_end(_)
trim_end(s) ==
    IF s = <<>> THEN s
    ELSE IF IsWhitespace(s[Len(s)]) THEN trim_end(SubSeq(s, 1, Len(s) - 1))
         ELSE s

\* the text as it is, not trimmed
untrimmed(s) == s

trim(s) == trim_end(trim_start(s))

is_empty(s) == Len(s) = 0

\* a filter that passes the texts on trimmed
non_empty_texts_trimmed(ts) ==
    LET kept == SelectSeq(ts, LAMBDA t : ~is_empty(trim(t)))
    IN  [i \in DOMAIN kept |-> trim(kept[i])]

\* texts.into_iter().filter(|text| !text.trim().is_empty()).collect()
non_empty_texts(ts) == SelectSeq(ts, LAMBDA t : ~is_empty(trim(t)))

Repeat(n, t) == [i \in 1..n |-> t]

\* the text lists a caller passes to encode_batch: the empty list, lists of
\* empty and blank texts, lists that mix them with other texts, and lists at
\* and just above the batch ceiling
BatchInputs ==
    { <<>>,
      << <<>> >>,
      << <<>>, <<" ">> >>,
      << <<" ">>, <<"a">> >>,
      << <<" ", "a">>, <<>>, <<"b">> >>,
      Repeat(MAX_BATCH_SIZE, <<"a">>),
      Repeat(MAX_BATCH_SIZE + 1, <<"a">>),
      Repeat(MAX_BATCH_SIZE, <<"a">>) \o << <<" ">> >> }

\* the text lists of the callers that keep what they passed: blank texts
\* before, between and after the others, and the same texts in both orders
KeptInputs ==
    { << <<>> >>,
      << <<" ">>, <<"a">> >>,
      << <<" ", "a">>, <<>>, <<"b">> >>,
      << <<"a">>, <<"b">> >>,
      << <<"b">>, <<" ">>, <<"a">> >> }

-----------------------------------------------------------------------------
(* ModelConfig and ModelComponents *)

ModelIds == { "", "A", "B" }
TokenizerRepos == { "", "T" }
SeqLens == { 0, MAX_SEQUENCE_LENGTH, MAX_SEQUENCE_LENGTH + 1 }

ModelConfig(id, tok, len) ==
    [model_id |-> id, tokenizer_repo |-> tok, revision |-> None,
     max_sequence_length |-> len, device |-> "cpu"]

Configs == { ModelConfig(id, tok, len) :
               id \in ModelIds, tok \in TokenizerRepos, len \in SeqLens }

NoConfig == ModelConfig("", "", 0)

\* the repository the artifacts are fetched from
repo_of(cfg) == IF cfg.model_id = "" THEN default_model ELSE cfg.model_id

\* Device::Cpu for every device string of a build without cuda and metal
get_device(device_str) == "Cpu"

\* the ModelComponents download_and_load_model builds for cfg: the weights and
\* the tokenizer are the artifacts of one repository
download_and_load_model(cfg) ==
    [model |-> repo_of(cfg), tokenizer |-> repo_of(cfg),
     device |-> get_device(cfg.device), config |-> cfg]

\* a validation without the upper bound of max_sequence_length
validate_config_unbounded(cfg) ==
    /\ cfg.model_id # ""
    /\ cfg.tokenizer_repo # ""
    /\ cfg.max_sequence_length >= 1

\* what switch_model accepts
validate_config(cfg) ==
    /\ cfg.model_id # ""
    /\ cfg.tokenizer_repo # ""
    /\ cfg.max_sequence_length >= 1
    /\ cfg.max_sequence_length <= MAX_SEQUENCE_LENGTH

NoUse == [tokenizer |-> "", model |-> "", device |-> ""]


-----------------------------------------------------------------------------
(* tokio::sync::RwLock: a task that asks for the lock joins the queue; the  *)
(* head of the queue is granted the lock as soon as what it asks for is     *)
(* free, so a waiting writer holds back the readers that came after it.     *)

ReadPcs == { "uc_config", "encode_texts", "svc_config", "info" }

WritePcs == { "swap" }

Enqueue(q, p) == Append(q, p)

\* read().await is granted to the head of the queue when no writer holds
CanRead(p) ==
    /\ waiters # <<>>
    /\ Head(waiters) = p
    /\ writer = 0

\* a write lock that does not wait for the readers to leave
CanWrite_over_readers(p) ==
    /\ waiters # <<>>
    /\ Head(waiters) = p
    /\ writer = 0

\* write().await is granted to the head of the queue when nobody holds
CanWrite(p) ==
    /\ waiters # <<>>
    /\ Head(waiters) = p
    /\ writer = 0
    /\ readers = {}

-----------------------------------------------------------------------------
(* CandleModelLoader::new, and no task running *)

\* no encoding is stepped through on its own
NoEngine == [stage |-> "none"]

NoTasks ==
    /\ current_model = None
    /\ readers = {}
    /\ writer = 0
    /\ waiters = <<>>
    /\ pc = [p \in Procs |-> "idle"]
    /\ op = [p \in Procs |-> "none"]
    /\ input = [p \in Procs |-> <<>>]
    /\ texts = [p \in Procs |-> <<>>]
    /\ config = [p \in Procs |-> NoConfig]
    /\ used = [p \in Procs |-> NoUse]
    /\ embeddings = [p \in Procs |-> <<>>]
    /\ result = [p \in Procs |-> NoResult]

Init ==
    /\ NoTasks
    /\ eng = NoEngine

\* the task returns r to its caller: its locals are dropped
Return(p, r) ==
    /\ pc' = [pc EXCEPT ![p] = "done"]
    /\ result' = [result EXCEPT ![p] = r]
    /\ texts' = [texts EXCEPT ![p] = <<>>]
    /\ config' = [config EXCEPT ![p] = NoConfig]
    /\ used' = [used EXCEPT ![p] = NoUse]
    /\ embeddings' = [embeddings EXCEPT ![p] = <<>>]

-----------------------------------------------------------------------------
(* EmbeddingUseCase *)

\* encode_single up to its first await: the text is validated, then the
\* registry is asked for the current config
encode_single(p, text) ==
    /\ pc[p] = "idle"
    /\ op' = [op EXCEPT ![p] = "encode_single"]
    /\ UNCHANGED <<input, eng>>
    /\ IF is_empty(trim(text))
       THEN /\ Return(p, anyhow("Text cannot be empty"))
            /\ UNCHANGED <<current_model, readers, writer, waiters>>
       ELSE /\ pc' = [pc EXCEPT ![p] = "uc_config"]
            /\ texts' = [texts EXCEPT ![p] = <<text>>]
            /\ waiters' = Enqueue(waiters, p)
            /\ UNCHANGED <<current_model, readers, writer,
                           config, used, embeddings, result>>

\* a validation that does not look at what the filter leaves
validate_batch_unfiltered(ts) ==
    IF is_empty(ts)
    THEN anyhow("Text list cannot be empty")
    ELSE IF Len(non_empty_texts(ts)) > MAX_BATCH_SIZE
    THEN anyhowArgs("Batch size exceeds maximum",
                    <<Len(non_empty_texts(ts)), MAX_BATCH_SIZE>>)
    ELSE Ok(non_empty_texts(ts))

\* a validation whose ceiling is one too low
validate_batch_inclusive(ts) ==
    IF is_empty(ts)
    THEN anyhow("Text list cannot be empty")
    ELSE IF is_empty(non_empty_texts(ts))
    THEN anyhow("All texts are empty")
    ELSE IF Len(non_empty_texts(ts)) >= MAX_BATCH_SIZE
    THEN anyhowArgs("Batch size exceeds maximum",
                    <<Len(non_empty_texts(ts)), MAX_BATCH_SIZE>>)
    ELSE Ok(non_empty_texts(ts))

\* what encode_batch answers before it reads the registry: an error, or the
\* texts it goes on with
validate_batch(ts) ==
    IF is_empty(ts)
    THEN anyhow("Text list cannot be empty")
    ELSE IF is_empty(non_empty_texts(ts))
    THEN anyhow("All texts are empty")
    ELSE IF Len(non_empty_texts(ts)) > MAX_BATCH_SIZE
    THEN anyhowArgs("Batch size exceeds maximum",
                    <<Len(non_empty_texts(ts)), MAX_BATCH_SIZE>>)
    ELSE Ok(non_empty_texts(ts))

\* validate_batch of every list a caller passes
Validated == [ts \in BatchInputs \cup KeptInputs |-> validate_batch(ts)]

\* encode_batch up to its first await
encode_batch_call(p, ts) ==
    /\ pc[p] = "idle"
    /\ op' = [op EXCEPT ![p] = "encode_batch"]
    /\ UNCHANGED eng
    /\ IF ~Validated[ts].ok
       THEN /\ Return(p, Validated[ts])
            /\ UNCHANGED <<current_model, readers, writer, waiters>>
       ELSE /\ pc' = [pc EXCEPT ![p] = "uc_config"]
            /\ texts' = [texts EXCEPT ![p] = Validated[ts].value]
            /\ waiters' = Enqueue(waiters, p)
            /\ UNCHANGED <<current_model, readers, writer,
                           config, used, embeddings, result>>

\* a call of encode_batch whose texts nobody keeps
encode_batch(p, ts) ==
    /\ encode_batch_call(p, ts)
    /\ UNCHANGED input

\* a call of encode_batch whose caller keeps the texts it passed, to compare
\* them with the response
encode_batch_kept(p, ts) ==
    /\ encode_batch_call(p, ts)
    /\ input' = [input EXCEPT ![p] = ts]

-----------------------------------------------------------------------------
(* the lock's grants *)

\* a lock that lets a reader in whenever no writer holds, past the queue
read_granted_barging(p) ==
    /\ pc[p] \in ReadPcs
    /\ \E i \in DOMAIN waiters : waiters[i] = p
    /\ writer = 0
    /\ readers' = readers \cup {p}
    /\ waiters' = SelectSeq(waiters, LAMBDA q : q # p)
    /\ UNCHANGED <<current_model, writer, pc, op, input, eng, texts, config,
                   used, embeddings, result>>

read_granted(p) ==
    /\ pc[p] \in ReadPcs
    /\ CanRead(p)
    /\ readers' = readers \cup {p}
    /\ waiters' = Tail(waiters)
    /\ UNCHANGED <<current_model, writer, pc, op, input, eng, texts, config, used,
                   embeddings, result>>

write_granted(p) ==
    /\ pc[p] \in WritePcs
    /\ CanWrite(p)
    /\ writer' = p
    /\ waiters' = Tail(waiters)
    /\ UNCHANGED <<current_model, readers, pc, op, input, eng, texts, config, used,
                   embeddings, result>>

-----------------------------------------------------------------------------
(* CandleModelLoader as ModelRepository *)

\* get_current_config under its read guard
get_current_config ==
    IF current_model = None
    THEN anyhow("No model loaded")
    ELSE Ok(Unwrap(current_model).config)

\* a readiness check whose guard is still held when encode_texts asks for its
\* own
uc_check_model_nested(p) ==
    /\ pc[p] = "uc_config"
    /\ p \in readers
    /\ IF ~get_current_config.ok
       THEN /\ Return(p, get_current_config)
            /\ readers' = readers \ {p}
            /\ UNCHANGED <<current_model, writer, waiters, op, input, eng>>
       ELSE /\ pc' = [pc EXCEPT ![p] = "encode_texts"]
            /\ waiters' = Enqueue(waiters, p)
            /\ UNCHANGED <<current_model, readers, writer, op, input, eng,
                           texts, config, used, embeddings, result>>

\* the use cases' readiness check: get_current_config returns and its guard
\* is dropped; on success the request goes on to the embedding service,
\* whose encode_texts asks for the read lock
uc_check_model(p) ==
    /\ pc[p] = "uc_config"
    /\ p \in readers
    /\ IF ~get_current_config.ok
       THEN /\ Return(p, get_current_config)
            /\ readers' = readers \ {p}
            /\ UNCHANGED <<current_model, writer, waiters, op, input, eng>>
       ELSE /\ pc' = [pc EXCEPT ![p] = "encode_texts"]
            /\ readers' = readers \ {p}
            /\ waiters' = Enqueue(waiters, p)
            /\ UNCHANGED <<current_model, writer, op, input, eng, texts, config, used,
                           embeddings, result>>

-----------------------------------------------------------------------------
(* tensors, by their shape: what the result packaging depends on *)

\* BertModel::forward: the hidden states of every token of every text
forward_shape == <<"batch", "tokens", "hidden">>

\* Tensor::sum(dim): the dimension is dropped (dim counts from 0)
sum_shape(shape, dim) ==
    SubSeq(shape, 1, dim) \o SubSeq(shape, dim + 2, Len(shape))

\* Tensor::get(i): the i-th slice along the first dimension
get_shape(shape) == Tail(shape)

\* Tensor::to_vec1 answers only for a tensor of one dimension
to_vec1_ok(shape) == Len(shape) = 1

\* encode_single_text: the forward pass, normalize_l2 (which keeps the
\* shape), then to_vec1 of the whole tensor
encode_single_text_ok == to_vec1_ok(forward_shape)

\* encode_batch_texts: the forward pass, the sum over the tokens, normalize_l2,
\* then to_vec1 of every text's slice
encode_batch_texts_ok == to_vec1_ok(get_shape(sum_shape(forward_shape, 1)))

-----------------------------------------------------------------------------
(* SentenceTransformerService *)

\* encode_texts under its read guard, up to the tokenizer's answer (the
\* tokenizer accepts every text of Texts)
encode_texts(p) ==
    /\ pc[p] = "encode_texts"
    /\ p \in readers
    /\ IF current_model = None
       THEN /\ Return(p, anyhow("No model loaded"))
            /\ readers' = readers \ {p}
            /\ UNCHANGED <<current_model, writer, waiters, op, input, eng>>
       ELSE /\ pc' = [pc EXCEPT ![p] = "tokenized"]
            /\ used' = [used EXCEPT ![p] =
                          [tokenizer |-> Unwrap(current_model).tokenizer,
                           model |-> "",
                           device |-> Unwrap(current_model).device]]
            /\ UNCHANGED <<current_model, readers, writer, waiters, op, input, eng,
                           texts, config, embeddings, result>>

\* the embedding of text t computed by the tokenizer tok and the weights m
Embedding(t, tok, m) == [text |-> t, tokenizer |-> tok, model |-> m]

\* the rows of the batch: the tokenizer encodes the texts in their order and
\* Tensor::stack keeps it, so row i is computed from text i
batch_rows(ts, tok, m) == [i \in 1..Len(ts) |-> Embedding(ts[i], tok, m)]

\* a packaging that pushes the rows last to first
unstack_reversed(rows, n) == [i \in 1..n |-> rows[n + 1 - i]]

\* for i in 0..texts.len() { result.push(final_embeddings.get(i)) }
unstack(rows, n) == [i \in 1..n |-> rows[i]]

\* the forward pass and the packaging of its result; the guard is dropped
\* when encode_texts returns, and encode / encode_batch then ask the
\* registry for the current config
forward(p) ==
    /\ pc[p] = "tokenized"
    /\ p \in readers
    /\ readers' = readers \ {p}
    /\ IF Len(texts[p]) = 1 /\ ~encode_single_text_ok
       THEN /\ Return(p, Err("candle", "unexpected rank"))
            /\ UNCHANGED <<current_model, writer, waiters, op, input, eng>>
       ELSE IF Len(texts[p]) # 1 /\ ~encode_batch_texts_ok
       THEN /\ Return(p, Err("candle", "unexpected rank"))
            /\ UNCHANGED <<current_model, writer, waiters, op, input, eng>>
       ELSE /\ pc' = [pc EXCEPT ![p] = "svc_config"]
            /\ used' = [used EXCEPT ![p].model = Unwrap(current_model).model]
            /\ embeddings' = [embeddings EXCEPT ![p] =
                  unstack(batch_rows(texts[p], used[p].tokenizer,
                                     Unwrap(current_model).model),
                          Len(texts[p]))]
            /\ waiters' = Enqueue(waiters, p)
            /\ UNCHANGED <<current_model, writer, op, input, eng, texts, config, result>>

\* the response of encode / encode_batch with the config read for it (the
\* embedding of encode is the first of the vectors encode_texts returned)
response(p, cfg) ==
    IF op[p] = "encode_single"
    THEN [embedding |-> <<Head(embeddings[p])>>, text |-> Head(texts[p]),
          model_id |-> cfg.model_id]
    ELSE [embeddings |-> embeddings[p], texts |-> texts[p],
          model_id |-> cfg.model_id]

\* the use case's check of the response it got
checked(p, r) ==
    IF op[p] = "encode_single"
    THEN IF is_empty(r.embedding)
         THEN anyhow("Failed to generate embedding") ELSE Ok(r)
    ELSE IF is_empty(r.embeddings)
         THEN anyhow("Failed to generate any embeddings") ELSE Ok(r)

\* encode / encode_batch after encode_texts: get_current_config gives the
\* model_id of the response, which the use case checks and returns
svc_config(p) ==
    /\ pc[p] = "svc_config"
    /\ p \in readers
    /\ readers' = readers \ {p}
    /\ IF ~get_current_config.ok
       THEN Return(p, get_current_config)
       ELSE Return(p, checked(p, response(p, get_current_config.value)))
    /\ UNCHANGED <<current_model, writer, waiters, op, input, eng>>

\* get_model_info: it asks the registry for the current config
get_model_info(p) ==
    /\ pc[p] = "idle"
    /\ op' = [op EXCEPT ![p] = "get_model_info"]
    /\ UNCHANGED <<input, eng>>
    /\ pc' = [pc EXCEPT ![p] = "info"]
    /\ waiters' = Enqueue(waiters, p)
    /\ UNCHANGED <<current_model, readers, writer, texts, config, used,
                   embeddings, result>>

info(p) ==
    /\ pc[p] = "info"
    /\ p \in readers
    /\ readers' = readers \ {p}
    /\ Return(p, get_current_config)
    /\ UNCHANGED <<current_model, writer, waiters, op, input, eng>>

-----------------------------------------------------------------------------
(* The numbers of the inference engine.  A tensor is its rank and its data, *)
(* nested sequences; a number is a fraction num/den, and a number that      *)
(* normalize_l2 returned is x / sqrt(over), kept as the pair of x and over. *)

Q(n, d) == [num |-> n, den |-> d]

QAdd(a, b) == Q(a.num * b.den + b.num * a.den, a.den * b.den)

QSqr(a) == Q(a.num * a.num, a.den * a.den)

QEq(a, b) == a.num * b.den = b.num * a.den

\* the sum of the fractions f[i] for the i of idx
RECURSIVE QSum(_, _)
QSum(f, idx) ==
    IF idx = {} THEN Q(0, 1)
    ELSE LET i == CHOOSE j \in idx : TRUE
         IN  QAdd(f[i], QSum(f, idx \ {i}))

Tensor(r, d) == [rank |-> r, data |-> d]

\* Tokenizer::encode(text, true): the special tokens around one token for
\* every character that is not whitespace; every position is a real token
tokenizer_encode(text) ==
    LET ids == <<"[CLS]">> \o SelectSeq(text, LAMBDA c : ~IsWhitespace(c))
                           \o <<"[SEP]">>
    IN  [ids |-> ids, attention_mask |-> [t \in DOMAIN ids |-> 1]]

\* the longest encoding of a batch
RECURSIVE longest(_)
longest(encs) ==
    IF encs = <<>> THEN 0
    ELSE LET n == Len(Head(encs).ids)
             m == longest(Tail(encs))
         IN  IF n > m THEN n ELSE m

\* Tokenizer::encode_batch under PaddingStrategy::BatchLongest: every
\* encoding is filled up with [PAD], attention mask 0, to the longest one
tokenizer_encode_batch(ts) ==
    LET encs == [i \in DOMAIN ts |-> tokenizer_encode(ts[i])]
        n == longest(encs)
    IN  [i \in DOMAIN ts |->
           [ids |-> [t \in 1..n |-> IF t <= Len(encs[i].ids)
                                     THEN encs[i].ids[t] ELSE "[PAD]"],
            attention_mask |-> [t \in 1..n |-> IF t <= Len(encs[i].ids)
                                               THEN 1 ELSE 0]]]

\* the weights of the two models, as the value each gives a token
weights ==
    [A |-> [c \in {"[CLS]", "[SEP]", "[PAD]", "a", "b"} |->
              CASE c = "[CLS]" -> 1 [] c = "[SEP]" -> 2 [] c = "[PAD]" -> 5
                [] c = "a" -> 3 [] c = "b" -> 4],
     B |-> [c \in {"[CLS]", "[SEP]", "[PAD]", "a", "b"} |->
              CASE c = "[CLS]" -> 2 [] c = "[SEP]" -> 1 [] c = "[PAD]" -> 4
                [] c = "a" -> 1 [] c = "b" -> 3]]

\* BertModel::forward(token_ids, token_type_ids, attention_mask): for every
\* position of every row a hidden state of two components, the value of the
\* position's own token and what attention gathers from the positions of the
\* row it may look at (those of mask 1); a padded position has a hidden
\* state as well
bert_forward(m, encs) ==
    Tensor(3,
      [b \in DOMAIN encs |->
         [t \in DOMAIN encs[b].ids |->
            << Q(weights[m][encs[b].ids[t]], 1),
               QSum([u \in DOMAIN encs[b].ids |->
                        Q(weights[m][encs[b].ids[u]], 1)],
                    { u \in DOMAIN encs[b].ids :
                         encs[b].attention_mask[u] = 1 }) >>]])

\* ys.dims3(), ys.sum(1) / n_tokens for the forward pass's ys: the sum over every
\* position of the row, padding included, by the length of the row
mean_pooling(ys) ==
    Tensor(2,
      [b \in DOMAIN ys.data |->
         LET row == ys.data[b]
             n_tokens == Len(row)
         IN  [h \in 1..2 |->
                LET sum == QSum([t \in DOMAIN row |-> row[t][h]], DOMAIN row)
                IN  Q(sum.num, sum.den * n_tokens)]])

\* v.broadcast_div(v.sqr().sum_keepdim(1).sqrt()): every number by the root
\* of the sum of the squares along dimension 1, which is the hidden
\* dimension of a [batch, hidden] tensor and the token dimension of a
\* [batch, tokens, hidden] tensor
normalize_l2(v) ==
    IF v.rank = 2
    THEN Tensor(2,
           [b \in DOMAIN v.data |->
              [h \in DOMAIN v.data[b] |->
                 [x |-> v.data[b][h],
                  over |-> QSum([k \in DOMAIN v.data[b] |->
                                   QSqr(v.data[b][k])],
                                DOMAIN v.data[b])]]])
    ELSE Tensor(3,
           [b \in DOMAIN v.data |->
              [t \in DOMAIN v.data[b] |->
                 [h \in DOMAIN v.data[b][t] |->
                    [x |-> v.data[b][t][h],
                     over |-> QSum([u \in DOMAIN v.data[b] |->
                                      QSqr(v.data[b][u][h])],
                                   DOMAIN v.data[b])]]]])

\* Tensor::get(i), i counted from 0
tensor_get(v, i) == Tensor(v.rank - 1, v.data[i + 1])

\* Tensor::to_vec1: the numbers of a tensor of rank 1, an error otherwise
to_vec1(v) ==
    IF v.rank = 1 THEN Ok(v.data) ELSE Err("candle", "unexpected rank")

\* encode_single_text: the tokens of the text as a batch of one (unsqueeze),
\* the forward pass without a mask, normalize_l2 of its output, to_vec1
encode_single_text(text, m, normalize) ==
    LET tokens == << tokenizer_encode(text) >>
        ys == bert_forward(m, tokens)
        embedding == IF normalize THEN normalize_l2(ys) ELSE ys
        embedding_vec == to_vec1(embedding)
    IN  IF embedding_vec.ok THEN Ok(<< embedding_vec.value >>)
        ELSE embedding_vec

\* the vectors of the rows, or the error of the first row without one
collect(vecs) ==
    IF \A i \in DOMAIN vecs : vecs[i].ok
    THEN Ok([i \in DOMAIN vecs |-> vecs[i].value])
    ELSE vecs[CHOOSE i \in DOMAIN vecs :
                 ~vecs[i].ok /\ \A j \in 1..(i - 1) : vecs[j].ok]

\* for i in 0..texts.len(): final_embeddings.get(i).to_vec1()
rows_to_vec(final_embeddings, n) ==
    collect(unstack([i \in 1..n |-> to_vec1(tensor_get(final_embeddings,
                                                       i - 1))], n))

\* encode_batch_texts: the padded tokens of the texts, the forward pass with
\* the attention mask, the pooling, normalize_l2, to_vec1 of every row
encode_batch_texts(ts, m, normalize) ==
    LET tokens == tokenizer_encode_batch(ts)
        ys == bert_forward(m, tokens)
        pooled_embeddings == mean_pooling(ys)
        final_embeddings == IF normalize THEN normalize_l2(pooled_embeddings)
                            ELSE pooled_embeddings
    IN  rows_to_vec(final_embeddings, Len(ts))

\* what encode_texts returns for the texts, with the weights m
encode_texts_value(ts, m, normalize) ==
    IF Len(ts) = 1 THEN encode_single_text(ts[1], m, normalize)
    ELSE encode_batch_texts(ts, m, normalize)

-----------------------------------------------------------------------------
(* One run of encode_texts, step by step: eng holds its arguments and the   *)
(* locals it has computed so far.                                           *)

\* the texts the use cases pass on: none of them is blank
EngineTexts ==
    { <<"a">>, <<"b">>, <<"a", "b">>, <<" ", "a">>, <<"b", "b", "a">> }

EngineInputs ==
    { [stage |-> "start", texts |-> ts, normalize |-> n, model |-> m] :
         ts \in UNION { [1..k -> EngineTexts] : k \in 1..MaxTexts },
         n \in BOOLEAN, m \in {"A", "B"} }

tasks == <<current_model, readers, writer, waiters,
           pc, op, input, texts, config, used, embeddings, result>>

\* the locals of the run with one more: local f holds v, at stage st
Let(st, f, v) == ("stage" :> st) @@ (f :> v) @@ eng

\* tokenizer.encode / tokenizer.encode_batch
eng_tokenize ==
    /\ eng.stage = "start"
    /\ eng' = Let("tokens", "tokens",
                  IF Len(eng.texts) = 1
                  THEN << tokenizer_encode(eng.texts[1]) >>
                  ELSE tokenizer_encode_batch(eng.texts))
    /\ UNCHANGED tasks

\* components.model.forward
eng_forward ==
    /\ eng.stage = "tokens"
    /\ eng' = Let("ys", "ys", bert_forward(eng.model, eng.tokens))
    /\ UNCHANGED tasks

\* the pooling of encode_batch_texts; encode_single_text has none
eng_pool ==
    /\ eng.stage = "ys"
    /\ Len(eng.texts) # 1
    /\ eng' = Let("pooled", "pooled_embeddings", mean_pooling(eng.ys))
    /\ UNCHANGED tasks

\* if normalize { normalize_l2 } else { as it is }: of the pooled tensor in
\* encode_batch_texts, of the forward pass's output in encode_single_text
eng_normalize ==
    /\ \/ eng.stage = "pooled"
       \/ eng.stage = "ys" /\ Len(eng.texts) = 1
    /\ LET v == IF eng.stage = "pooled" THEN eng.pooled_embeddings
                ELSE eng.ys
       IN  eng' = Let("final", "final_embeddings",
                      IF eng.normalize THEN normalize_l2(v) ELSE v)
    /\ UNCHANGED tasks

\* to_vec1 of the whole tensor in encode_single_text, of every row in
\* encode_batch_texts
eng_to_vec ==
    /\ eng.stage = "final"
    /\ eng' = Let("done", "result",
                  IF Len(eng.texts) = 1
                  THEN LET embedding_vec == to_vec1(eng.final_embeddings)
                       IN  IF embedding_vec.ok
                           THEN Ok(<< embedding_vec.value >>)
                           ELSE embedding_vec
                  ELSE rows_to_vec(eng.final_embeddings, Len(eng.texts)))
    /\ UNCHANGED tasks

EngineInit ==
    /\ NoTasks
    /\ eng \in EngineInputs

EngineNext ==
    \/ eng_tokenize
    \/ eng_forward
    \/ eng_pool
    \/ eng_normalize
    \/ eng_to_vec

EngineSpec == EngineInit /\ [][EngineNext]_vars

-----------------------------------------------------------------------------
(* switch_model and load_model *)

\* switch_model: the config is validated, then load_model starts the
\* retrieval of the artifacts
switch_model(p, cfg) ==
    /\ pc[p] = "idle"
    /\ op' = [op EXCEPT ![p] = "switch_model"]
    /\ UNCHANGED <<input, eng>>
    /\ IF ~validate_config(cfg)
       THEN Return(p, Err("InvalidConfig", "invalid model config"))
       ELSE /\ pc' = [pc EXCEPT ![p] = "download"]
            /\ config' = [config EXCEPT ![p] = cfg]
            /\ UNCHANGED <<texts, used, embeddings, result>>
    /\ UNCHANGED <<current_model, readers, writer, waiters>>

\* a failed load that empties the slot
load_failed_unloads(p, e) ==
    /\ Return(p, e)
    /\ current_model' = None
    /\ UNCHANGED <<readers, writer, waiters, op, input, eng>>

\* download_and_load_model(config).await? fails: load_model returns the error
load_failed(p, e) ==
    /\ Return(p, e)
    /\ UNCHANGED <<current_model, readers, writer, waiters, op, input, eng>>

\* a load that asks for the write lock before it deserializes
download_ok_locks(p) ==
    /\ pc[p] = "download"
    /\ pc' = [pc EXCEPT ![p] = "construct"]
    /\ waiters' = Enqueue(waiters, p)
    /\ UNCHANGED <<current_model, readers, writer, op, input, eng, texts,
                   config, used, embeddings, result>>

\* a load that drops the old model before it deserializes the new one
download_ok_unloads(p) ==
    /\ pc[p] = "download"
    /\ pc' = [pc EXCEPT ![p] = "construct"]
    /\ current_model' = None
    /\ UNCHANGED <<readers, writer, waiters, op, input, eng, texts,
                   config, used, embeddings, result>>

\* the artifacts are fetched: config.json, tokenizer.json, the weights
download_ok(p) ==
    /\ pc[p] = "download"
    /\ pc' = [pc EXCEPT ![p] = "construct"]
    /\ UNCHANGED <<current_model, readers, writer, waiters, op, input, eng, texts,
                   config, used, embeddings, result>>

download_fails(p) ==
    /\ pc[p] = "download"
    /\ load_failed(p, Err("hf_hub", "request failed"))

\* the config, the tokenizer and the weights are deserialized into the
\* ModelComponents; load_model then asks for the write lock
construct_ok(p) ==
    /\ pc[p] = "construct"
    /\ pc' = [pc EXCEPT ![p] = "swap"]
    /\ waiters' = Enqueue(waiters, p)
    /\ UNCHANGED <<current_model, readers, writer, op, input, eng, texts, config, used,
                   embeddings, result>>

construct_fails(p) ==
    /\ pc[p] = "construct"
    /\ \E e \in { Err("serde_json", "invalid config.json"),
                  anyhow("Failed to load tokenizer"),
                  Err("candle", "cannot load the weights") } :
          load_failed(p, e)

\* a load that fills the slot only when it is empty
swap_if_empty(p) ==
    /\ pc[p] = "swap"
    /\ writer = p
    /\ current_model' = IF current_model = None
                        THEN Some(download_and_load_model(config[p]))
                        ELSE current_model
    /\ writer' = 0
    /\ Return(p, Ok("unit"))
    /\ UNCHANGED <<readers, waiters, op, input, eng>>

\* *model_guard = Some(components), under the write guard, which is dropped
\* when load_model returns
swap(p) ==
    /\ pc[p] = "swap"
    /\ writer = p
    /\ current_model' = Some(download_and_load_model(config[p]))
    /\ writer' = 0
    /\ Return(p, Ok("unit"))
    /\ UNCHANGED <<readers, waiters, op, input, eng>>

\* the caller takes the result; the task slot is free for the next request
finish(p) ==
    /\ pc[p] = "done"
    /\ pc' = [pc EXCEPT ![p] = "idle"]
    /\ op' = [op EXCEPT ![p] = "none"]
    /\ input' = [input EXCEPT ![p] = <<>>]
    /\ UNCHANGED eng
    /\ result' = [result EXCEPT ![p] = NoResult]
    /\ UNCHANGED <<current_model, readers, writer, waiters, texts, config,
                   used, embeddings>>

-----------------------------------------------------------------------------

Next ==
    \E p \in Procs :
        \/ \E text \in Texts : encode_single(p, text)
        \/ \E ts \in BatchInputs : encode_batch(p, ts)
        \/ get_model_info(p)
        \/ \E cfg \in Configs : switch_model(p, cfg)
        \/ read_granted(p)
        \/ write_granted(p)
        \/ uc_check_model(p)
        \/ encode_texts(p)
        \/ forward(p)
        \/ svc_config(p)
        \/ info(p)
        \/ download_ok(p)
        \/ download_fails(p)
        \/ construct_ok(p)
        \/ construct_fails(p)
        \/ swap(p)
        \/ finish(p)

Spec == Init /\ [][Next]_vars

\* what task p does by itself once its request is made: the runtime polls
\* every task that can go on, and the lock serves the head of its queue
step(p) ==
    \/ read_granted(p)
    \/ write_granted(p)
    \/ uc_check_model(p)
    \/ encode_texts(p)
    \/ forward(p)
    \/ svc_config(p)
    \/ info(p)
    \/ download_ok(p)
    \/ download_fails(p)
    \/ construct_ok(p)
    \/ construct_fails(p)
    \/ swap(p)

\* the requests that differ in how they use the lock: a text and a list that
\* are rejected, a text and a list that are encoded, a config that is
\* rejected and the configs of two models
LiveTexts == { <<" ">>, <<"a">> }

LiveInputs == { <<>>, << <<"a">>, <<"b">> >> }

LiveConfigs ==
    { ModelConfig("", "T", 0),
      ModelConfig("A", "T", MAX_SEQUENCE_LENGTH),
      ModelConfig("B", "T", MAX_SEQUENCE_LENGTH) }

LiveNext ==
    \E p \in Procs :
        \/ \E text \in LiveTexts : encode_single(p, text)
        \/ \E ts \in LiveInputs : encode_batch(p, ts)
        \/ get_model_info(p)
        \/ \E cfg \in LiveConfigs : switch_model(p, cfg)
        \/ step(p)
        \/ finish(p)

\* fair scheduling: no task that can go on is left out for ever; that a
\* request is made, and that its result is taken, is up to the callers
FairSpec == Init /\ [][LiveNext]_vars /\ \A p \in Procs : WF_vars(step(p))

\* the same requests, with callers of encode_batch that keep their texts
OrderNext ==
    \E p \in Procs :
        \/ \E text \in Texts : encode_single(p, text)
        \/ \E ts \in KeptInputs : encode_batch_kept(p, ts)
        \/ get_model_info(p)
        \/ \E cfg \in Configs : switch_model(p, cfg)
        \/ read_granted(p)
        \/ write_granted(p)
        \/ uc_check_model(p)
        \/ encode_texts(p)
        \/ forward(p)
        \/ svc_config(p)
        \/ info(p)
        \/ download_ok(p)
        \/ download_fails(p)
        \/ construct_ok(p)
        \/ construct_fails(p)
        \/ swap(p)
        \/ finish(p)

OrderSpec == Init /\ [][OrderNext]_vars

-----------------------------------------------------------------------------
(* Vocabulary of the properties *)

EncodeOps == { "encode_single", "encode_batch" }

\* the phases of a load before its swap: retrieval and deserialization
LoadingPcs == { "download", "construct" }

LoadPcs == LoadingPcs \cup { "swap" }

Loaded == current_model # None

Current == Unwrap(current_model)

\* every fully constructed ModelComponents: the weights, the tokenizer and
\* the device that belong to one config
LoadedModels ==
    { [model |-> repo_of(cfg), tokenizer |-> repo_of(cfg), device |-> "Cpu",
       config |-> cfg] : cfg \in Configs }

Returned(p) == pc[p] = "done"

Succeeded(p) == Returned(p) /\ result[p].ok

\* the embeddings of a successful encode / encode_batch response
EmbeddingsOf(r) ==
    IF "embeddings" \in DOMAIN r THEN r.embeddings ELSE r.embedding

\* a text that is empty after trimming, said without trim
Blank(t) == \A i \in DOMAIN t : t[i] = " "

\* the number of texts of ts that are not blank
ValidCount(ts) == Cardinality({ i \in DOMAIN ts : ~Blank(ts[i]) })

\* the task does not touch the registry's lock in this step
LockUntouched ==
    /\ readers' = readers
    /\ writer' = writer
    /\ waiters' = waiters

-----------------------------------------------------------------------------
(* C1, C2: a response and the model behind it *)

\* C1: swap atomicity.  Every successful encode / encode_batch has computed
\* its whole result from one fully constructed model: there is one
\* ModelComponents whose tokenizer and weights computed every embedding of the
\* response and whose config gave the response its model_id; and a task
\* inside encode_texts has read nothing but the components of the current
\* model.
SwapAtomicity ==
    /\ \A p \in Procs :
          (Succeeded(p) /\ op[p] \in EncodeOps) =>
             \E m \in LoadedModels :
                /\ result[p].value.model_id = m.config.model_id
                /\ \A i \in DOMAIN EmbeddingsOf(result[p].value) :
                      /\ EmbeddingsOf(result[p].value)[i].tokenizer = m.tokenizer
                      /\ EmbeddingsOf(result[p].value)[i].model = m.model
    /\ \A p \in Procs :
          pc[p] = "tokenized" =>
             /\ Loaded
             /\ used[p].tokenizer = Current.tokenizer
             /\ used[p].device = Current.device

\* the part of C1 that is about encode_texts alone: the embeddings a task got
\* from encode_texts were all computed by the tokenizer and the weights of
\* one model
EncodeTextsOneModel ==
    \A p \in Procs :
       \A i \in DOMAIN embeddings[p] :
          \E m \in LoadedModels :
             /\ embeddings[p][i].tokenizer = m.tokenizer
             /\ embeddings[p][i].model = m.model

\* C2: the model_id of a successful encode / encode_batch response is the
\* model_id of the model whose weights computed its embeddings.
ResponseNamesItsModel ==
    \A p \in Procs :
       (Succeeded(p) /\ op[p] \in EncodeOps) =>
          \A i \in DOMAIN EmbeddingsOf(result[p].value) :
             \E m \in LoadedModels :
                /\ m.model = EmbeddingsOf(result[p].value)[i].model
                /\ m.config.model_id = result[p].value.model_id

-----------------------------------------------------------------------------
(* C3: the validation of switch_model *)

\* a config switch_model has to reject, said without validate_config
Rejectable(cfg) ==
    \/ cfg.max_sequence_length = 0
    \/ cfg.max_sequence_length > 8192
    \/ cfg.model_id = ""
    \/ cfg.tokenizer_repo = ""

-----------------------------------------------------------------------------
(* C4: a load that fails *)

\* C4: a load that returns an error leaves current_model as it was; and
\* current_model changes only in the step in which a load holding the write
\* guard returns Ok, and then to the whole ModelComponents of that load's
\* config.
FailedLoadKeepsModel ==
    /\ [][\A p \in Procs :
            (pc[p] \in LoadPcs /\ pc'[p] = "done" /\ ~result'[p].ok) =>
               current_model' = current_model]_vars
    /\ [][current_model' # current_model =>
            \E p \in Procs :
               /\ pc[p] = "swap"
               /\ writer = p
               /\ pc'[p] = "done"
               /\ result'[p].ok
               /\ current_model' =
                     << [model |-> config[p].model_id,
                         tokenizer |-> config[p].model_id,
                         device |-> "Cpu",
                         config |-> config[p]] >>]_vars

\* a load failed in its retrieval or its deserialization while a model is
\* loaded
LoadFailedWhileLoaded ==
    /\ Loaded
    /\ \E p \in Procs :
          /\ Returned(p)
          /\ op[p] = "switch_model"
          /\ ~result[p].ok
          /\ result[p].kind \in { "hf_hub", "serde_json", "adhoc", "candle" }

-----------------------------------------------------------------------------
(* C5: no model loaded *)

\* what the use cases say about the texts of a request
ValidationMessages ==
    { "Text cannot be empty", "Text list cannot be empty",
      "All texts are empty", "Batch size exceeds maximum" }

\* C5: as long as no load has succeeded, a get_model_info that returned, and
\* an encode / encode_batch that returned for another reason than its texts,
\* returned an error of the kind ModelNotFound.
UnloadedIsModelNotFound ==
    \A p \in Procs :
       ( /\ ~Loaded
         /\ Returned(p)
         /\ op[p] \in EncodeOps \cup { "get_model_info" } ) =>
            /\ result[p].ok = FALSE
            /\ \/ result[p].message \in ValidationMessages
               \/ result[p].kind = "ModelNotFound"

-----------------------------------------------------------------------------
(* C6: the lock during a load *)

InQueue(p) == \E i \in DOMAIN waiters : waiters[i] = p

\* C6: a load in its retrieval or deserialization neither holds the lock nor
\* waits for it; the task that holds the write guard is at the replacement
\* of the slot; and unless a load is at that replacement, the read guard of
\* the reader at the head of the queue is granted at once.
LoadingHoldsNoLock ==
    /\ \A q \in Procs :
          pc[q] \in LoadingPcs =>
             (writer # q /\ q \notin readers /\ ~InQueue(q))
    /\ \A q \in Procs : writer = q => pc[q] = "swap"
    /\ (\A q \in Procs : pc[q] # "swap") =>
          \A p \in Procs :
             (pc[p] \in ReadPcs /\ waiters # <<>> /\ Head(waiters) = p) =>
                ENABLED read_granted(p)

\* while a load of another model is in its retrieval or deserialization, an
\* encode holds the read guard and has tokenized with the old model
ReadDuringLoading ==
    /\ Loaded
    /\ \E q \in Procs :
          /\ pc[q] \in LoadingPcs
          /\ config[q].model_id # Current.config.model_id
    /\ \E p \in Procs :
          /\ pc[p] = "tokenized"
          /\ p \in readers
          /\ used[p].tokenizer = Current.tokenizer

-----------------------------------------------------------------------------
(* C7: readiness *)

\* C7: once a model is loaded, every step leaves a model loaded; no task
\* returns "No model loaded" in a step taken while a model is loaded; and a
\* get_model_info that reads the slot then, loads in progress or not, returns
\* the config of the model in the slot.
ReadinessMonotonic ==
    /\ [][Loaded => Loaded']_vars
    /\ [][\A p \in Procs :
            (Loaded /\ ~Returned(p) /\ Returned(p)') =>
               ~IsErr(result'[p], "No model loaded")]_vars
    /\ [][\A p \in Procs :
            (Loaded /\ info(p)) => result'[p] = Ok(Current.config)]_vars

\* a model is loaded, a later load has failed, another is in progress
ServedWhileLoading ==
    /\ Loaded
    /\ \E q \in Procs : pc[q] \in LoadPcs
    /\ \E p \in Procs :
          /\ Succeeded(p)
          /\ op[p] = "get_model_info"
          /\ result[p].value = Current.config

-----------------------------------------------------------------------------
(* C8, C9, C10: what the use cases reject *)

\* C8: encode_single answers a text that is blank with "Text cannot be
\* empty" in its first step, in every state of the registry, without asking
\* for the lock and without a step of the embedding service.
BlankTextRejected ==
    [][\A p \in Procs : \A text \in Texts :
          (encode_single(p, text) /\ Blank(text)) =>
             /\ pc'[p] = "done"
             /\ result'[p] = anyhow("Text cannot be empty")
             /\ current_model' = current_model
             /\ LockUntouched]_vars

\* a blank text was rejected while the first load is in progress
BlankRejectedWhileLoading ==
    /\ ~Loaded
    /\ \E q \in Procs : pc[q] \in LoadingPcs
    /\ \E p \in Procs :
          /\ Returned(p)
          /\ op[p] = "encode_single"
          /\ IsErr(result[p], "Text cannot be empty")

\* C9: encode_batch answers the empty list with "Text list cannot be empty"
\* and a list of blank texts with "All texts are empty", in its first step,
\* without asking for the lock: also when no model is loaded.
EmptyBatchRejected ==
    [][\A p \in Procs : \A ts \in BatchInputs :
          encode_batch(p, ts) =>
             /\ Len(ts) = 0 =>
                   /\ pc'[p] = "done"
                   /\ result'[p] = anyhow("Text list cannot be empty")
                   /\ LockUntouched
             /\ (Len(ts) > 0 /\ ValidCount(ts) = 0) =>
                   /\ pc'[p] = "done"
                   /\ result'[p] = anyhow("All texts are empty")
                   /\ LockUntouched]_vars

\* both rejections were returned while no model is loaded
EmptyBatchesRejectedUnloaded ==
    /\ ~Loaded
    /\ \E p \in Procs :
          /\ Returned(p)
          /\ op[p] = "encode_batch"
          /\ IsErr(result[p], "Text list cannot be empty")
    /\ \E p \in Procs :
          /\ Returned(p)
          /\ op[p] = "encode_batch"
          /\ IsErr(result[p], "All texts are empty")

\* C10: encode_batch answers a list of more than 100 texts that are not blank
\* with an error that names their number and 100, in its first step; a list
\* of exactly 100 such texts passes on to the readiness check and, a model
\* being loaded, to encode_texts; and no encode_batch is ever in the embedding
\* service with more than 100 texts.
BatchCeiling ==
    /\ [](\A p \in Procs :
            op[p] = "encode_batch" =>
               (Len(texts[p]) <= 100 /\ Len(embeddings[p]) <= 100))
    /\ [][\A p \in Procs : \A ts \in BatchInputs :
            encode_batch(p, ts) =>
               /\ ValidCount(ts) > 100 =>
                     /\ pc'[p] = "done"
                     /\ result'[p] = anyhowArgs("Batch size exceeds maximum",
                                                <<ValidCount(ts), 100>>)
                     /\ LockUntouched
               /\ ValidCount(ts) = 100 =>
                     /\ pc'[p] = "uc_config"
                     /\ Len(texts'[p]) = 100]_vars
    /\ [][\A p \in Procs :
            (uc_check_model(p) /\ Loaded /\ op[p] = "encode_batch") =>
               /\ pc'[p] = "encode_texts"
               /\ texts'[p] = texts[p]]_vars

\* 100 texts went through the forward pass while a list of 101 was rejected
HundredEncoded ==
    /\ \E p \in Procs :
          /\ op[p] = "encode_batch"
          /\ pc[p] = "svc_config"
          /\ Len(embeddings[p]) = 100
    /\ \E q \in Procs :
          /\ Returned(q)
          /\ op[q] = "encode_batch"
          /\ IsErr(result[q], "Batch size exceeds maximum")
          /\ result[q].args = <<101, 100>>

-----------------------------------------------------------------------------
(* C11, C19: the response of encode_batch and the texts its caller passed *)

\* the texts of ts that are not blank, in their order
RECURSIVE NonBlank(_)
NonBlank(ts) ==
    IF ts = <<>> THEN <<>>
    ELSE IF Blank(Head(ts)) THEN NonBlank(Tail(ts))
         ELSE <<Head(ts)>> \o NonBlank(Tail(ts))

\* the task returned a response to an encode_batch whose caller kept its texts
BatchSucceeded(p) == Succeeded(p) /\ op[p] = "encode_batch"

\* C11 as stated: in every successful encode_batch response, embeddings[i] is
\* the embedding of the caller's i-th input text, for every position i.
OrderPreservation ==
    \A p \in Procs :
       BatchSucceeded(p) =>
          \A i \in DOMAIN result[p].value.embeddings :
             /\ i \in DOMAIN input[p]
             /\ result[p].value.embeddings[i].text = input[p][i]

\* C11 as amended: in every successful encode_batch response, embeddings[i] is
\* computed from the i-th of the caller's texts that are not blank: the
\* embeddings are in the relative order of those texts.
OrderOfNonBlank ==
    \A p \in Procs :
       BatchSucceeded(p) =>
          /\ Len(result[p].value.embeddings) = Len(NonBlank(input[p]))
          /\ \A i \in DOMAIN result[p].value.embeddings :
                result[p].value.embeddings[i].text = NonBlank(input[p])[i]

\* a response to a list with a blank text between two different texts
OrderedAcrossBlank ==
    \E p \in Procs :
       /\ BatchSucceeded(p)
       /\ input[p] = << <<"b">>, <<" ">>, <<"a">> >>
       /\ result[p].value.embeddings[1].text = <<"b">>
       /\ result[p].value.embeddings[2].text = <<"a">>

\* C19: the texts of a successful encode_batch response are the caller's
\* texts that are not blank, in their order and as the caller wrote them;
\* the response has one embedding for each of them, at least one, and
\* embeddings[i] is computed from texts[i] of the response.
ResponseTexts ==
    \A p \in Procs :
       BatchSucceeded(p) =>
          /\ result[p].value.texts = NonBlank(input[p])
          /\ Len(result[p].value.embeddings) = Len(result[p].value.texts)
          /\ Len(result[p].value.texts) >= 1
          /\ \A i \in DOMAIN result[p].value.embeddings :
                result[p].value.embeddings[i].text = result[p].value.texts[i]

\* a response to a list with an empty text in it, whose first text has kept
\* its leading blank
UntrimmedTextReturned ==
    \E p \in Procs :
       /\ BatchSucceeded(p)
       /\ Len(input[p]) = 3
       /\ Len(result[p].value.texts) = 2
       /\ result[p].value.texts[1] = <<" ", "a">>
       /\ result[p].value.embeddings[1].text = <<" ", "a">>

-----------------------------------------------------------------------------
(* The engine, run by run *)

\* the run returned what encode_texts returns for its arguments, and vectors
\* exactly when the shapes of its path end in a tensor of rank 1
EngineRunsEncodeTexts ==
    eng.stage = "done" =>
       /\ eng.result = encode_texts_value(eng.texts, eng.model, eng.normalize)
       /\ eng.result.ok = IF Len(eng.texts) = 1 THEN encode_single_text_ok
                          ELSE encode_batch_texts_ok

\* a number of a returned vector as x / sqrt(over)
Num(e) == IF "over" \in DOMAIN e THEN e ELSE [x |-> e, over |-> Q(1, 1)]

\* two such numbers are equal: the same sign and the same square
NumEq(a, b) ==
    /\ (Num(a).x.num > 0) = (Num(b).x.num > 0)
    /\ (Num(a).x.num < 0) = (Num(b).x.num < 0)
    /\ QSqr(Num(a).x).num * Num(a).over.den
          * QSqr(Num(b).x).den * Num(b).over.num
       = QSqr(Num(b).x).num * Num(b).over.den
          * QSqr(Num(a).x).den * Num(a).over.num

\* two vectors of the same length and the same numbers
VecEq(v, w) ==
    /\ DOMAIN v = DOMAIN w
    /\ \A h \in DOMAIN v : NumEq(v[h], w[h])

-----------------------------------------------------------------------------
(* C12: one text alone and in a batch *)

\* C12: for the texts T, U of a batch that returned its vectors, with the
\* same weights and the same normalize, encode_texts of T alone returns one
\* vector, of the length and the numbers of the vector at T's position in
\* the batch.
BatchSingleEquivalence ==
    (eng.stage = "done" /\ Len(eng.texts) >= 2 /\ eng.result.ok) =>
       \A i \in DOMAIN eng.texts :
          LET alone == encode_texts_value(<< eng.texts[i] >>, eng.model,
                                          eng.normalize)
          IN  /\ alone.ok
              /\ Len(alone.value) = 1
              /\ VecEq(alone.value[1], eng.result.value[i])

-----------------------------------------------------------------------------
(* C13: the pooling and the padding *)

\* the positions of row b that hold a real token
RealPositions(b) ==
    { t \in DOMAIN eng.tokens[b].ids : eng.tokens[b].attention_mask[t] = 1 }

\* the sum of component h of the hidden states of row b at its real positions
MaskedSum(b, h) ==
    QSum([t \in DOMAIN eng.ys.data[b] |-> eng.ys.data[b][t][h]],
         RealPositions(b))

\* the pooled vector of text t in a batch that forces no padding on it
PooledUnpadded(t) ==
    mean_pooling(bert_forward(eng.model,
                              tokenizer_encode_batch(<< t, t >>))).data[1]

\* C13: the pooled vector of every row of a batch is the sum of the hidden
\* states at the row's positions of mask 1 divided by the number of those
\* positions; so it is the vector the text gets in a batch that pads it with
\* nothing.
MaskAwarePooling ==
    "pooled_embeddings" \in DOMAIN eng =>
       \A b \in DOMAIN eng.texts : \A h \in 1..2 :
          /\ QEq(eng.pooled_embeddings.data[b][h],
                 Q(MaskedSum(b, h).num,
                   MaskedSum(b, h).den * Cardinality(RealPositions(b))))
          /\ QEq(eng.pooled_embeddings.data[b][h],
                 PooledUnpadded(eng.texts[b])[h])

\* the part of C13 that the code keeps: in a batch whose texts have the same
\* number of tokens, the pooled vector is the mean over the real positions
PoolingWithoutPadding ==
    ( /\ "pooled_embeddings" \in DOMAIN eng
      /\ \A b \in DOMAIN eng.texts :
            RealPositions(b) = DOMAIN eng.tokens[b].ids ) =>
       \A b \in DOMAIN eng.texts : \A h \in 1..2 :
          QEq(eng.pooled_embeddings.data[b][h],
              Q(MaskedSum(b, h).num,
                MaskedSum(b, h).den * Cardinality(RealPositions(b))))

-----------------------------------------------------------------------------
(* C14: the normalization *)

\* the sum of the squares of the numbers of a returned vector is 1
UnitNorm(v) ==
    LET squares == QSum([h \in DOMAIN v |-> QSqr(Num(v[h]).x)], DOMAIN v)
    IN  \A h \in DOMAIN v :
           /\ Num(v[h]).over.num > 0
           /\ QEq(squares, Num(v[h]).over)

\* C14: with normalize = true, a run of encode_texts on either path returns
\* its vectors, one for every text, each of them of norm 1: its numbers are
\* those of one sequence over the root of the sum of their squares.
NormalizationLaw ==
    (eng.stage = "done" /\ eng.normalize) =>
       /\ eng.result.ok
       /\ Len(eng.result.value) = Len(eng.texts)
       /\ \A i \in DOMAIN eng.result.value : UnitNorm(eng.result.value[i])

\* the part of C14 that the code keeps: on the batch path every returned
\* vector is its row of the pooled tensor over that row's own norm
BatchPathNormalized ==
    (eng.stage = "done" /\ eng.normalize /\ Len(eng.texts) # 1) =>
       /\ eng.result.ok
       /\ \A i \in DOMAIN eng.result.value :
             /\ UnitNorm(eng.result.value[i])
             /\ \A h \in 1..2 :
                   eng.result.value[i][h].x = eng.pooled_embeddings.data[i][h]

\* the normalization of the single-text path: every number of the forward
\* pass's output is divided by a norm taken over the tokens, not over the
\* hidden components of the sequence
SinglePathNormalizesOverTokens ==
    (eng.stage = "final" /\ eng.normalize /\ Len(eng.texts) = 1) =>
       /\ eng.final_embeddings.rank = 3
       /\ \A t \in DOMAIN eng.ys.data[1] : \A h \in 1..2 :
             QEq(eng.final_embeddings.data[1][t][h].over,
                 QSum([u \in DOMAIN eng.ys.data[1] |->
                          QSqr(eng.ys.data[1][u][h])],
                      DOMAIN eng.ys.data[1]))

-----------------------------------------------------------------------------
(* C15: readers and writers of the slot *)

\* the positions at which a task may hold the read guard
ReadHoldPcs == ReadPcs \cup { "tokenized" }

\* the loads inside their swap section: the write guard is theirs
InSwapSection == { p \in Procs : pc[p] = "swap" /\ writer = p }

\* the tasks that read the slot through a guard
Reading == { p \in Procs : pc[p] \in ReadHoldPcs /\ p \in readers }

\* C15: in every reachable state either no load is inside its swap section,
\* or exactly one is and no task holds the slot for reading; the guards are
\* held by tasks at the positions that read or replace the slot; and while a
\* load is inside its swap section no other task is granted a guard, the
\* slot changing in no step but a step of that load.
ReaderWriterExclusion ==
    /\ [](\/ InSwapSection = {}
          \/ Cardinality(InSwapSection) = 1 /\ Reading = {} /\ readers = {})
    /\ [](readers = Reading /\ (writer # 0 => writer \in InSwapSection))
    /\ [][writer # 0 =>
            /\ writer' \in {0, writer}
            /\ readers' = readers]_vars
    /\ [][current_model' # current_model =>
            (writer # 0 /\ writer' = 0 /\ readers = {})]_vars

\* every task holds the slot for reading at once
ReadersTogether ==
    /\ writer = 0
    /\ Cardinality(Reading) = NumProcs
    /\ Cardinality(Reading) > 1

\* a load is inside its swap section while a reader waits for the slot
SwapSectionHeld ==
    /\ Cardinality(InSwapSection) = 1
    /\ \E p \in Procs : pc[p] \in ReadPcs /\ waiters # <<>> /\ Head(waiters) = p

-----------------------------------------------------------------------------
(* C16, C17: progress *)

\* C16: under fair scheduling, a switch_model whose load has its components
\* and asks for the write guard eventually holds it, installs its model and
\* returns Ok, whatever requests the other tasks go on making.
WriterNotStarved ==
    \A p \in Procs :
       (pc[p] = "swap") ~>
          (pc[p] = "done" /\ op[p] = "switch_model" /\ result[p] = Ok("unit"))

\* a load waits for the write guard, first of the queue, while an encode
\* that has tokenized holds the slot for reading
WriterWaitsForReader ==
    \E p \in Procs : \E q \in Procs :
       /\ pc[p] = "swap"
       /\ writer # p
       /\ waiters # <<>>
       /\ Head(waiters) = p
       /\ pc[q] = "tokenized"
       /\ q \in readers

\* C17: under fair scheduling every call that was made eventually returns a
\* result or an error: no call waits for ever, also not a request that asks
\* for the read guard again while a switch_model waits for the write guard.
NoRequestBlocks ==
    \A p \in Procs : (pc[p] \notin {"idle", "done"}) ~> (pc[p] = "done")

\* a request that has read the slot once asks for the read guard again behind
\* a switch_model that waits for the write guard
ReaderRequeuedBehindWriter ==
    \E p \in Procs : \E q \in Procs :
       /\ pc[q] = "swap"
       /\ pc[p] \in {"encode_texts", "svc_config"}
       /\ Len(waiters) >= 2
       /\ waiters[1] = q
       /\ waiters[2] = p

-----------------------------------------------------------------------------
(* C18: the config of the current model *)

\* the whole ModelComponents of a load of cfg
ComponentsOf(cfg) ==
    [model |-> cfg.model_id, tokenizer |-> cfg.model_id, device |-> "Cpu",
     config |-> cfg]

\* the step in which the load of task p returns Ok
LoadReturnsOk(p) ==
    /\ pc[p] \in LoadPcs
    /\ pc'[p] = "done"
    /\ result'[p].ok

\* C18: the slot holds at most one model, whole; the step in which a load
\* returns Ok leaves in the slot the whole components of the config that
\* load was called with and nothing else, whatever was there; no other step
\* changes the slot; and get_model_info returns the config in the slot.  So
\* get_model_info returns the config of the load whose swap came last.
LastSwapWins ==
    /\ [](Len(current_model) <= 1)
    /\ [](Loaded => \E cfg \in Configs : Current = ComponentsOf(cfg))
    /\ [][\A p \in Procs :
            LoadReturnsOk(p) => current_model' = << ComponentsOf(config[p]) >>
         ]_vars
    /\ [][(\A p \in Procs : ~LoadReturnsOk(p)) =>
            current_model' = current_model]_vars
    /\ [][\A p \in Procs :
            info(p) =>
               result'[p] = IF current_model = <<>>
                            THEN anyhow("No model loaded")
                            ELSE Ok(current_model[1].config)]_vars

\* the loads of all tasks have returned Ok, one after the other, and the
\* slot holds the model B
SecondLoadInSlot ==
    /\ Loaded
    /\ Current.config.model_id = "B"
    /\ \A p \in Procs : Succeeded(p) /\ op[p] = "switch_model"

=============================================================================
